---------------------------- MODULE Spec2Model ----------------------------
(***************************************************************************)
(* Meal management (Django app "core"): the stored records, the request    *)
(* handlers of views.py and the service layer of services.py.              *)
(*                                                                         *)
(* Representation.                                                         *)
(*   - A Decimal with two decimal places is an integer number of           *)
(*     hundredths: money in cents, meal units in hundredths of a meal.     *)
(*     Decimal arithmetic runs with the default context (28 significant    *)
(*     digits, ROUND_HALF_EVEN); every value of the model is far below 28  *)
(*     digits, so sums and products are exact and the only rounding is the *)
(*     one done by quantize().                                             *)
(*   - A date is its proleptic Gregorian ordinal (date.toordinal()).       *)
(*   - A table whose rows have a primary key order is a sequence (the      *)
(*     index is the pk); the meal table is a set of rows.                  *)
(*   - The float() conversions of calculate_dashboard happen after all     *)
(*     rounding, at the interface boundary; the rows of the model carry    *)
(*     the Decimal values that are handed to float().                      *)
(***************************************************************************)
EXTENDS Integers, Sequences, FiniteSets, TLC

VARIABLES
    messes,       \* Mess rows: mess id -> [name, owner, currency, include_breakfast, breakfast_weight]
    memberships,  \* MessUser rows in pk order: [mess, user, role]
    members,      \* Member rows in pk order: [mess, user, name, is_active, default_meal_pattern]
    meals,        \* Meal rows: [mess, member, date, had_breakfast, had_lunch, had_dinner, extra_meals]
    expenses,     \* Expense rows in pk order: [mess, date, amount]
    deposits,     \* Deposit rows in pk order: [mess, member, date, amount]
    assignments,  \* MealManagerAssignment rows in pk order
    request,      \* the last request: [user, view, method, date]
    response,     \* the response to it: [view, status, data]
    accounts,     \* auth User rows: the usernames
    inflight      \* meal-form submissions being processed: worker -> local state

vars == <<messes, memberships, members, meals, expenses, deposits, assignments,
          request, response, accounts, inflight>>

db == <<messes, memberships, members, meals, expenses, deposits, assignments>>

-----------------------------------------------------------------------------
(* Bounds of the model *)

MaxRows == 2
MaxAssignments == 2
MaxMembers == 4
MaxMemberships == 5

-----------------------------------------------------------------------------
(* Users and constants of models.py *)

Users == {"u1", "u2", "u3", "u4"}

ROLE_SUPER_ADMIN == "super_admin"
ROLE_MANAGER == "manager"
ROLE_MEMBER == "member"

DefaultBreakfastWeight == 50

\* None: a null foreign key, and the result of get_user_mess without a MessUser row
Null == 0

MessIds == {1, 2}

\* the server's worker processes, and a worker that is handling no meal form
Workers == {"w1", "w2"}

Idle == [pc |-> "idle"]

-----------------------------------------------------------------------------
(* Calendar: calendar.monthrange and datetime.date as used by services.py *)

IsLeap(year) == (year % 4 = 0) /\ ((year % 100 # 0) \/ (year % 400 = 0))

\* faulty variant of MonthLastDay: every fourth year is a leap year
MonthLastDayJulian(year, month) ==
    IF month = 2 THEN (IF year % 4 = 0 THEN 29 ELSE 28)
    ELSE IF month \in {4, 6, 9, 11} THEN 30 ELSE 31

\* calendar.monthrange(year, month)[1]
MonthLastDay(year, month) ==
    IF month = 2 THEN (IF IsLeap(year) THEN 29 ELSE 28)
    ELSE IF month \in {4, 6, 9, 11} THEN 30 ELSE 31

RECURSIVE DaysBeforeMonth(_, _)
DaysBeforeMonth(year, month) ==
    IF month = 1 THEN 0
    ELSE DaysBeforeMonth(year, month - 1) + MonthLastDay(year, month - 1)

\* date(year, month, day).toordinal()
Date(year, month, day) ==
    LET y == year - 1
    IN  y * 365 + (y \div 4) - (y \div 100) + (y \div 400)
          + DaysBeforeMonth(year, month) + day

get_month_date_range(year, month) ==
    LET last_day == MonthLastDay(year, month)
    IN  [start_date |-> Date(year, month, 1), end_date |-> Date(year, month, last_day)]

-----------------------------------------------------------------------------
(* Decimal *)

\* Decimal(str(s)): the strings the model submits, parsed to hundredths;
\* anything else raises (ok = FALSE)
ParseDecimal(s) ==
    CASE s = "0"     -> [ok |-> TRUE, value |-> 0]
      [] s = "0.5"   -> [ok |-> TRUE, value |-> 50]
      [] s = "0.75"  -> [ok |-> TRUE, value |-> 75]
      [] s = "1"     -> [ok |-> TRUE, value |-> 100]
      [] s = "-1"    -> [ok |-> TRUE, value |-> -100]
      [] s = "25.50" -> [ok |-> TRUE, value |-> 2550]
      [] s = "50"    -> [ok |-> TRUE, value |-> 5000]
      [] s = "100"   -> [ok |-> TRUE, value |-> 10000]
      [] OTHER       -> [ok |-> FALSE, value |-> 0]

\* n / d rounded to the nearest integer, a tie going to the even neighbour
\* (the default rounding of Decimal.quantize); d > 0
RoundHalfEven(n, d) ==
    LET q == n \div d
        r == n % d
    IN  IF 2 * r < d THEN q
        ELSE IF 2 * r > d THEN q + 1
        ELSE IF q % 2 = 0 THEN q ELSE q + 1

\* faulty variant of QuantizeQuotient: the quotient is truncated instead of rounded
QuantizeQuotientTruncated(a, b) == (100 * a) \div b

\* (a / b).quantize(Decimal('0.01')) for a in cents and b in hundredths of a meal
QuantizeQuotient(a, b) == RoundHalfEven(100 * a, b)

\* faulty variant of QuantizeProduct: ROUND_HALF_UP instead of the default rounding
QuantizeProductHalfUp(a, b) ==
    LET p == a * b
    IN  IF p >= 0 THEN (2 * p + 100) \div 200 ELSE -((2 * (-p) + 100) \div 200)

\* (a * b).quantize(Decimal('0.01')) for a in hundredths of a meal and b in cents
QuantizeProduct(a, b) == RoundHalfEven(a * b, 100)

-----------------------------------------------------------------------------
(* Generic helpers *)

RECURSIVE SumSet(_, _)
\* the sum of f[x] over the finite set S
SumSet(S, f) ==
    IF S = {} THEN 0
    ELSE LET x == CHOOSE y \in S : TRUE
         IN  f[x] + SumSet(S \ {x}, f)

Min(S) == CHOOSE x \in S : \A y \in S : x <= y

RECURSIVE AscSeq(_)
\* the elements of a finite set of integers in increasing order
AscSeq(S) == IF S = {} THEN <<>> ELSE <<Min(S)>> \o AscSeq(S \ {Min(S)})

Range(s) == {s[i] : i \in DOMAIN s}


-----------------------------------------------------------------------------
(* services.py: permission checks *)

\* views.get_user_mess: the mess of the user's first MessUser row, or None
get_user_mess(user) ==
    LET rows == {i \in DOMAIN memberships : memberships[i].user = user}
    IN  IF rows = {} THEN Null ELSE memberships[Min(rows)].mess

\* faulty variant of is_mess_super_admin: the mess filter is missing
is_super_admin_of_any_mess(user, mess) ==
    \E i \in DOMAIN memberships :
        /\ memberships[i].user = user
        /\ memberships[i].role = ROLE_SUPER_ADMIN

\* faulty variant of is_mess_super_admin: the role filter is missing
is_mess_user(user, mess) ==
    \E i \in DOMAIN memberships :
        memberships[i].mess = mess /\ memberships[i].user = user

is_mess_super_admin(user, mess) ==
    \E i \in DOMAIN memberships :
        /\ memberships[i].mess = mess
        /\ memberships[i].user = user
        /\ memberships[i].role = ROLE_SUPER_ADMIN

\* faulty variant of is_meal_manager_for_date: end_date__gt instead of end_date__gte
is_meal_manager_before_end(user, mess, target_date) ==
    \E i \in DOMAIN assignments :
        /\ assignments[i].mess = mess
        /\ assignments[i].manager_user = user
        /\ assignments[i].start_date <= target_date
        /\ assignments[i].end_date > target_date

\* faulty variant of is_meal_manager_for_date: the date filters are missing
is_meal_manager_any_date(user, mess, target_date) ==
    \E i \in DOMAIN assignments :
        assignments[i].mess = mess /\ assignments[i].manager_user = user

is_meal_manager_for_date(user, mess, target_date) ==
    \E i \in DOMAIN assignments :
        /\ assignments[i].mess = mess
        /\ assignments[i].manager_user = user
        /\ assignments[i].start_date <= target_date
        /\ assignments[i].end_date >= target_date

\* MealManagerAssignment.total_days
total_days(a) == (a.end_date - a.start_date) + 1

-----------------------------------------------------------------------------
(* services.py: calculate_dashboard *)

\* faulty variant of InRange: the last day of the range is left out
InRangeExclusiveEnd(d, rng) == rng.start_date <= d /\ d < rng.end_date

\* date__range=(start_date, end_date): SQL BETWEEN, both ends included
InRange(d, rng) == rng.start_date <= d /\ d <= rng.end_date

\* mess.members.filter(is_active=True), as member ids in pk order
ActiveMembers(mess) ==
    AscSeq({i \in DOMAIN members : members[i].mess = mess /\ members[i].is_active})

\* mess.expenses.filter(date__range=...).aggregate(Sum('amount')) or Decimal('0')
TotalExpense(mess, rng) ==
    LET rows == {i \in DOMAIN expenses :
                    expenses[i].mess = mess /\ InRange(expenses[i].date, rng)}
    IN  SumSet(rows, [i \in rows |-> expenses[i].amount])

\* faulty variant of TotalCollected: only the deposits of active members are summed
TotalCollectedActiveOnly(mess, rng) ==
    LET rows == {i \in DOMAIN deposits :
                    /\ deposits[i].mess = mess
                    /\ InRange(deposits[i].date, rng)
                    /\ deposits[i].member \in Range(ActiveMembers(mess))}
    IN  SumSet(rows, [i \in rows |-> deposits[i].amount])

\* mess.deposits.filter(date__range=...).aggregate(Sum('amount')) or Decimal('0')
TotalCollected(mess, rng) ==
    LET rows == {i \in DOMAIN deposits :
                    deposits[i].mess = mess /\ InRange(deposits[i].date, rng)}
    IN  SumSet(rows, [i \in rows |-> deposits[i].amount])

\* faulty variant of EffectiveBreakfastWeight: the include_breakfast flag is not consulted
BreakfastWeightIgnoringFlag(mess) == messes[mess].breakfast_weight

\* breakfast_weight = mess.breakfast_weight if include_breakfast else Decimal('0')
EffectiveBreakfastWeight(mess) ==
    IF messes[mess].include_breakfast THEN messes[mess].breakfast_weight ELSE 0

\* the body of the loop over meal_entries
meals_for_entry(meal, breakfast_weight) ==
    (IF meal.had_breakfast THEN breakfast_weight ELSE 0)
      + (IF meal.had_lunch THEN 100 ELSE 0)
      + (IF meal.had_dinner THEN 100 ELSE 0)
      + meal.extra_meals

\* faulty variant of MealEntries: the member__in=members_qs filter is missing
MealEntriesAllMembers(mess, rng) ==
    {m \in meals : m.mess = mess /\ InRange(m.date, rng)}

\* mess.meals.filter(date__range=..., member__in=members_qs)
MealEntries(mess, rng) ==
    {m \in meals : /\ m.mess = mess
                   /\ InRange(m.date, rng)
                   /\ m.member \in Range(ActiveMembers(mess))}

\* meals_per_member[member_id] after the loop (a defaultdict: 0 when absent)
MealsPerMember(mess, rng, member_id) ==
    LET rows == {m \in MealEntries(mess, rng) : m.member = member_id}
        bw   == EffectiveBreakfastWeight(mess)
    IN  SumSet(rows, [m \in rows |-> meals_for_entry(m, bw)])

\* faulty variant of TotalMealsAll: the meals of inactive members are added too
TotalMealsOfAllMembers(mess, rng) ==
    LET rows == MealEntriesAllMembers(mess, rng)
        bw   == EffectiveBreakfastWeight(mess)
    IN  SumSet(rows, [m \in rows |-> meals_for_entry(m, bw)])

\* total_meals_all after the loop
TotalMealsAll(mess, rng) ==
    LET rows == MealEntries(mess, rng)
        bw   == EffectiveBreakfastWeight(mess)
    IN  SumSet(rows, [m \in rows |-> meals_for_entry(m, bw)])

\* faulty variant of MealRate: without meals the whole expense is taken as the rate
MealRateNoZeroPolicy(total_expense, total_meals_all) ==
    IF total_meals_all > 0 THEN QuantizeQuotient(total_expense, total_meals_all)
    ELSE total_expense

\* meal_rate
MealRate(total_expense, total_meals_all) ==
    IF total_meals_all > 0 THEN QuantizeQuotient(total_expense, total_meals_all) ELSE 0

\* deposits_map.get(member.id, Decimal('0'))
DepositsOf(mess, rng, member_id) ==
    LET rows == {i \in DOMAIN deposits :
                    /\ deposits[i].mess = mess
                    /\ InRange(deposits[i].date, rng)
                    /\ deposits[i].member = member_id}
    IN  SumSet(rows, [i \in rows |-> deposits[i].amount])

\* faulty variant of Status: a zero net is classified as due
StatusNonStrict(net) == IF net <= 0 THEN "due" ELSE "advance"

\* status = 'due' if net < 0 else 'advance' if net > 0 else 'settled'
Status(net) == IF net < 0 THEN "due" ELSE IF net > 0 THEN "advance" ELSE "settled"

\* one element of member_rows
MemberRow(mess, rng, meal_rate, member_id) ==
    LET total_meals == MealsPerMember(mess, rng, member_id)
        meal_cost   == QuantizeProduct(total_meals, meal_rate)
        deposited   == DepositsOf(mess, rng, member_id)
        net         == deposited - meal_cost
    IN  [id        |-> member_id,
         name      |-> members[member_id].name,
         meals     |-> total_meals,
         meal_cost |-> meal_cost,
         deposited |-> deposited,
         net       |-> net,
         status    |-> Status(net)]

\* mess_balance
MessBalance(total_collected, total_expense) == total_collected - total_expense

\* faulty variant of UpdateStats: >= instead of > in the test of the last period
UpdateStatsNonStrict(data, a) ==
    LET later == a.start_date >= data.last_start
    IN  [data EXCEPT !.total_days = @ + total_days(a),
                     !.assignment_count = @ + 1,
                     !.last_start = IF later THEN a.start_date ELSE @,
                     !.last_end = IF later THEN a.end_date ELSE @]

\* faulty variant of UpdateStats: total_days is assigned instead of accumulated
UpdateStatsLastDays(data, a) ==
    LET later == a.start_date > data.last_start
    IN  [data EXCEPT !.total_days = total_days(a),
                     !.assignment_count = @ + 1,
                     !.last_start = IF later THEN a.start_date ELSE @,
                     !.last_end = IF later THEN a.end_date ELSE @]

\* the strict-greater-than update of last_start / last_end, and the counters
UpdateStats(data, a) ==
    LET later == a.start_date > data.last_start
    IN  [data EXCEPT !.total_days = @ + total_days(a),
                     !.assignment_count = @ + 1,
                     !.last_start = IF later THEN a.start_date ELSE @,
                     !.last_end = IF later THEN a.end_date ELSE @]

\* manager_data.setdefault(user_id, {...})
NewStats(a) ==
    [user             |-> a.manager_user,
     name             |-> IF a.manager_member # Null
                          THEN members[a.manager_member].name ELSE a.manager_user,
     total_days       |-> 0,
     assignment_count |-> 0,
     last_start       |-> a.start_date,
     last_end         |-> a.end_date]

RECURSIVE FoldStats(_, _)
\* the loop over assignments; acc is manager_data in insertion order
FoldStats(order, acc) ==
    IF order = <<>> THEN acc
    ELSE LET a    == assignments[Head(order)]
             hit  == {k \in DOMAIN acc : acc[k].user = a.manager_user}
             acc1 == IF hit = {} THEN Append(acc, NewStats(a)) ELSE acc
             k    == CHOOSE j \in DOMAIN acc1 : acc1[j].user = a.manager_user
         IN  FoldStats(Tail(order), [acc1 EXCEPT ![k] = UpdateStats(@, a)])

\* manager_stats_list for assignments read in the given order
ManagerStats(order) ==
    LET data == FoldStats(order, <<>>)
    IN  [k \in DOMAIN data |->
            [name             |-> data[k].name,
             total_days       |-> data[k].total_days,
             assignment_count |-> data[k].assignment_count,
             last_start       |-> data[k].last_start,
             last_end         |-> data[k].last_end]]

\* mess.manager_assignments.all() under Meta.ordering = ['-start_date']: every
\* order of the mess's assignment pks with non-increasing start_date (the
\* database is free in the order of rows with equal start_date)
AssignmentOrders(mess) ==
    LET S == {i \in DOMAIN assignments : assignments[i].mess = mess}
        n == Cardinality(S)
    IN  {p \in [1..n -> S] :
            /\ \A i, j \in 1..n : i # j => p[i] # p[j]
            /\ \A i, j \in 1..n :
                 i < j => assignments[p[i]].start_date >= assignments[p[j]].start_date}

calculate_dashboard(mess, year, month, order) ==
    LET rng             == get_month_date_range(year, month)
        total_expense   == TotalExpense(mess, rng)
        total_collected == TotalCollected(mess, rng)
        members_qs      == ActiveMembers(mess)
        total_meals_all == TotalMealsAll(mess, rng)
        meal_rate       == MealRate(total_expense, total_meals_all)
    IN  [summary |->
            [year              |-> year,
             month             |-> month,
             total_meals       |-> total_meals_all,
             total_expense     |-> total_expense,
             total_collected   |-> total_collected,
             meal_rate         |-> meal_rate,
             mess_balance      |-> MessBalance(total_collected, total_expense),
             active_members    |-> Len(members_qs),
             include_breakfast |-> messes[mess].include_breakfast,
             breakfast_weight  |-> EffectiveBreakfastWeight(mess)],
         members |->
            [k \in DOMAIN members_qs |-> MemberRow(mess, rng, meal_rate, members_qs[k])],
         manager_stats |-> ManagerStats(order)]

-----------------------------------------------------------------------------
(* views.py: responses *)

NoData == [none |-> TRUE]

Reply(view, status, data) == [view |-> view, status |-> status, data |-> data]

\* request.user, the view the URL routes to, request.method and the date the
\* request carries (Null when the view reads none)
Request(user, view, method, date) ==
    [user |-> user, view |-> view, method |-> method, date |-> date]

\* every handler starts with get_user_mess and redirects to the login page
\* when the user has no mess
RedirectLogin(view) ==
    /\ response' = Reply(view, "redirect_login", NoData)
    /\ UNCHANGED db

\* HttpResponseForbidden
Forbidden(view) ==
    /\ response' = Reply(view, "forbidden", NoData)
    /\ UNCHANGED db

-----------------------------------------------------------------------------
(* views.py: dashboard_view *)

\* faulty variant of dashboard_view: the effective breakfast weight is written
\* back to the Mess row (mess.breakfast_weight = Decimal('0'); mess.save())
dashboard_view_saving_weight(user, year, month) ==
    LET mess == get_user_mess(user)
    IN  (IF mess = Null THEN RedirectLogin("dashboard")
        ELSE /\ \E order \in AssignmentOrders(mess) :
                    response' = Reply("dashboard", "ok",
                                      [mess |-> mess,
                                       dash |-> calculate_dashboard(mess, year, month, order),
                                       user_is_super_admin |-> is_mess_super_admin(user, mess)])
             /\ messes' = [messes EXCEPT ![mess].breakfast_weight = EffectiveBreakfastWeight(mess)]
             /\ UNCHANGED <<memberships, members, meals, expenses, deposits, assignments>>)
        /\ request' = Request(user, "dashboard", "GET", Null)
        /\ UNCHANGED <<accounts, inflight>>

dashboard_view(user, year, month) ==
    LET mess == get_user_mess(user)
    IN  (IF mess = Null THEN RedirectLogin("dashboard")
        ELSE /\ \E order \in AssignmentOrders(mess) :
                    response' = Reply("dashboard", "ok",
                                      [mess |-> mess,
                                       dash |-> calculate_dashboard(mess, year, month, order),
                                       user_is_super_admin |-> is_mess_super_admin(user, mess)])
             /\ UNCHANGED db)
        /\ request' = Request(user, "dashboard", "GET", Null)
        /\ UNCHANGED <<accounts, inflight>>

-----------------------------------------------------------------------------
(* views.py: expense_view *)

\* ExpenseForm(request.POST).is_valid(): the amount must parse as a decimal
expense_view(user, method, date, amount_str) ==
    LET mess   == get_user_mess(user)
        amount == ParseDecimal(amount_str)
    IN  (IF mess = Null THEN RedirectLogin("expense")
        ELSE IF ~is_mess_super_admin(user, mess) THEN Forbidden("expense")
        ELSE IF method = "POST" /\ amount.ok
        THEN /\ Len(expenses) + Len(deposits) < MaxRows
             /\ expenses' = Append(expenses,
                                   [mess |-> mess, date |-> date, amount |-> amount.value])
             /\ response' = Reply("expense", "redirect", NoData)
             /\ UNCHANGED <<messes, memberships, members, meals, deposits, assignments>>
        ELSE /\ response' = Reply("expense", "ok", NoData)
             /\ UNCHANGED db)
        /\ request' = Request(user, "expense", method, date)
        /\ UNCHANGED <<accounts, inflight>>

-----------------------------------------------------------------------------
(* views.py: deposit_view *)

\* DepositForm(request.POST).is_valid(): the member field accepts the pk of
\* any Member row (the queryset is narrowed to the mess on GET only)
deposit_view(user, method, date, member_id, amount_str) ==
    LET mess   == get_user_mess(user)
        amount == ParseDecimal(amount_str)
    IN  (IF mess = Null THEN RedirectLogin("deposit")
        ELSE IF ~is_mess_super_admin(user, mess) THEN Forbidden("deposit")
        ELSE IF method = "POST" /\ amount.ok /\ member_id \in DOMAIN members
        THEN /\ Len(expenses) + Len(deposits) < MaxRows
             /\ deposits' = Append(deposits,
                                   [mess |-> mess, member |-> member_id,
                                    date |-> date, amount |-> amount.value])
             /\ response' = Reply("deposit", "redirect", NoData)
             /\ UNCHANGED <<messes, memberships, members, meals, expenses, assignments>>
        ELSE /\ response' = Reply("deposit", "ok", NoData)
             /\ UNCHANGED db)
        /\ request' = Request(user, "deposit", method, date)
        /\ UNCHANGED <<accounts, inflight>>

-----------------------------------------------------------------------------
(* views.py: settings_view *)

\* faulty variant of settings_view: an invalid weight is stored as 0
settings_view_zero_on_invalid(user, method, include_breakfast, weight_str) ==
    LET mess   == get_user_mess(user)
        weight == ParseDecimal(weight_str)
    IN  (IF mess = Null THEN RedirectLogin("settings")
        ELSE IF ~is_mess_super_admin(user, mess) THEN Forbidden("settings")
        ELSE IF method = "POST"
        THEN /\ messes' = [messes EXCEPT
                              ![mess].include_breakfast = include_breakfast,
                              ![mess].breakfast_weight =
                                  IF weight.ok THEN weight.value ELSE 0]
             /\ response' = Reply("settings", "redirect", NoData)
             /\ UNCHANGED <<memberships, members, meals, expenses, deposits, assignments>>
        ELSE /\ response' = Reply("settings", "ok", NoData)
             /\ UNCHANGED db)
        /\ request' = Request(user, "settings", method, Null)
        /\ UNCHANGED <<accounts, inflight>>

settings_view(user, method, include_breakfast, weight_str) ==
    LET mess   == get_user_mess(user)
        weight == ParseDecimal(weight_str)
    IN  (IF mess = Null THEN RedirectLogin("settings")
        ELSE IF ~is_mess_super_admin(user, mess) THEN Forbidden("settings")
        ELSE IF method = "POST"
        THEN /\ messes' = [messes EXCEPT
                              ![mess].include_breakfast = include_breakfast,
                              ![mess].breakfast_weight =
                                  IF weight.ok THEN weight.value ELSE @]
             /\ response' = Reply("settings", "redirect", NoData)
             /\ UNCHANGED <<memberships, members, meals, expenses, deposits, assignments>>
        ELSE /\ response' = Reply("settings", "ok", NoData)
             /\ UNCHANGED db)
        /\ request' = Request(user, "settings", method, Null)
        /\ UNCHANGED <<accounts, inflight>>

-----------------------------------------------------------------------------
(* forms.py: MealManagerAssignmentForm;  views.py: manager_assignments_view *)

ASSIGNMENT_TYPE_WEEK == "week"
ASSIGNMENT_TYPE_DAYS == "days"
ASSIGNMENT_TYPE_CUSTOM == "custom"

PERIOD_CHOICES == {"1_week", "2_weeks", "3_weeks", "4_weeks", "15_days", "30_days", "custom"}

\* period_choice.endswith(suffix)
EndsWith(period_choice, suffix) ==
    CASE suffix = "_week"  -> period_choice = "1_week"
      [] suffix = "week"   -> period_choice = "1_week"
      [] suffix = "_weeks" -> period_choice \in {"2_weeks", "3_weeks", "4_weeks"}
      [] suffix = "weeks"  -> period_choice \in {"2_weeks", "3_weeks", "4_weeks"}
      [] suffix = "_days"  -> period_choice \in {"15_days", "30_days"}
      [] suffix = "days"   -> period_choice \in {"15_days", "30_days"}
      [] OTHER             -> FALSE

\* int(period_choice.split('_')[0])
LeadingInt(period_choice) ==
    CASE period_choice = "1_week"  -> 1
      [] period_choice = "2_weeks" -> 2
      [] period_choice = "3_weeks" -> 3
      [] period_choice = "4_weeks" -> 4
      [] period_choice = "15_days" -> 15
      [] period_choice = "30_days" -> 30

\* faulty variant of CleanAssignment: the end-before-start validation is missing
CleanAssignmentUnchecked(period_choice, start_date, end_date) ==
    [end_date |-> IF period_choice # "custom" /\ end_date = Null
                  THEN IF EndsWith(period_choice, "_week") \/ EndsWith(period_choice, "_weeks")
                       THEN start_date + (7 * LeadingInt(period_choice) - 1)
                       ELSE start_date + (LeadingInt(period_choice) - 1)
                  ELSE end_date,
     valid    |-> TRUE]

\* MealManagerAssignmentForm.clean: the cleaned end_date (Null when none is
\* submitted with 'custom') and whether the ValidationError is raised
CleanAssignment(period_choice, start_date, end_date) ==
    LET end == IF period_choice # "custom" /\ end_date = Null
               THEN IF EndsWith(period_choice, "_week") \/ EndsWith(period_choice, "_weeks")
                    THEN start_date + (7 * LeadingInt(period_choice) - 1)
                    ELSE IF EndsWith(period_choice, "_days")
                    THEN start_date + (LeadingInt(period_choice) - 1)
                    ELSE end_date
               ELSE end_date
    IN  [end_date |-> end, valid |-> ~(end # Null /\ end < start_date)]

AssignmentType(period_choice) ==
    IF EndsWith(period_choice, "week") \/ EndsWith(period_choice, "weeks")
    THEN ASSIGNMENT_TYPE_WEEK
    ELSE IF EndsWith(period_choice, "days") THEN ASSIGNMENT_TYPE_DAYS
    ELSE ASSIGNMENT_TYPE_CUSTOM

\* User.objects.filter(mess_roles__mess=mess): the choices of manager_user
MessUsers(mess) == {memberships[i].user : i \in {j \in DOMAIN memberships : memberships[j].mess = mess}}

\* start_date = Null: no start date submitted (the field is required)
manager_assignments_view(user, method, manager_user, period_choice, start_date, end_date) ==
    LET mess    == get_user_mess(user)
        cleaned == CleanAssignment(period_choice, start_date, end_date)
        valid   == /\ manager_user \in MessUsers(mess)
                   /\ period_choice \in PERIOD_CHOICES
                   /\ start_date # Null
                   /\ cleaned.valid
    IN  (IF mess = Null THEN RedirectLogin("managers")
        ELSE IF ~is_mess_super_admin(user, mess) THEN Forbidden("managers")
        ELSE IF method = "POST" /\ valid
        THEN IF cleaned.end_date = Null
             THEN \* end_date is NOT NULL: assignment.save() raises IntegrityError
                  /\ response' = Reply("managers", "error", NoData)
                  /\ UNCHANGED db
             ELSE /\ Len(assignments) < MaxAssignments
                  /\ assignments' = Append(assignments,
                        [mess            |-> mess,
                         manager_user    |-> manager_user,
                         manager_member  |-> Null,
                         assignment_type |-> AssignmentType(period_choice),
                         period_choice   |-> period_choice,
                         start_date      |-> start_date,
                         end_date        |-> cleaned.end_date,
                         created_by      |-> user])
                  /\ response' = Reply("managers", "redirect", NoData)
                  /\ UNCHANGED <<messes, memberships, members, meals, expenses, deposits>>
        ELSE /\ response' = Reply("managers", "ok", NoData)
             /\ UNCHANGED db)
        /\ request' = Request(user, "managers", method, start_date)
        /\ UNCHANGED <<accounts, inflight>>

-----------------------------------------------------------------------------
(* views.py: member_add_view;  admin.py: MemberAdmin *)

DEFAULT_MEAL_CHOICES == {"NONE", "B", "L", "D", "BL", "LD", "BD", "BLD"}

\* linked_user = Null: no user account linked
member_add_view(user, method, name, linked_user, is_active, default_meal_pattern) ==
    LET mess  == get_user_mess(user)
        valid == default_meal_pattern \in DEFAULT_MEAL_CHOICES /\ name # ""
    IN  (IF mess = Null THEN RedirectLogin("member_add")
        ELSE IF ~is_mess_super_admin(user, mess) THEN Forbidden("member_add")
        ELSE IF method = "POST" /\ valid
        THEN IF \E i \in DOMAIN members : members[i].mess = mess /\ members[i].name = name
             THEN \* unique_together (mess, name): member.save() raises IntegrityError
                  /\ response' = Reply("member_add", "error", NoData)
                  /\ UNCHANGED db
             ELSE /\ Len(members) < MaxMembers
                  /\ members' = Append(members,
                        [mess |-> mess, user |-> linked_user, name |-> name,
                         is_active |-> is_active,
                         default_meal_pattern |-> default_meal_pattern])
                  /\ response' = Reply("member_add", "redirect", NoData)
                  /\ UNCHANGED <<messes, memberships, meals, expenses, deposits, assignments>>
        ELSE /\ response' = Reply("member_add", "ok", NoData)
             /\ UNCHANGED db)
        /\ request' = Request(user, "member_add", method, Null)
        /\ UNCHANGED <<accounts, inflight>>

\* the admin site's add form of a MessUser; the form validates
\* unique_together (mess, user) and the role choices
admin_messuser_add(mess, user, role) ==
    /\ role \in {ROLE_SUPER_ADMIN, ROLE_MANAGER, ROLE_MEMBER}
    /\ ~\E i \in DOMAIN memberships :
           memberships[i].mess = mess /\ memberships[i].user = user
    /\ Len(memberships) < MaxMemberships
    /\ memberships' = Append(memberships, [mess |-> mess, user |-> user, role |-> role])
    /\ request' = Request("staff", "admin", "POST", Null)
    /\ UNCHANGED <<accounts, inflight>>
    /\ response' = Reply("admin", "redirect", NoData)
    /\ UNCHANGED <<messes, members, meals, expenses, deposits, assignments>>

\* the admin site's change form of a Member: the active flag is edited
admin_member_change(member_id, is_active) ==
    /\ member_id \in DOMAIN members
    /\ members[member_id].is_active # is_active
    /\ members' = [members EXCEPT ![member_id].is_active = is_active]
    /\ request' = Request("staff", "admin", "POST", Null)
    /\ UNCHANGED <<accounts, inflight>>
    /\ response' = Reply("admin", "redirect", NoData)
    /\ UNCHANGED <<messes, memberships, meals, expenses, deposits, assignments>>

-----------------------------------------------------------------------------
(* views.py: meals_view *)

\* "B" in pattern, "L" in pattern, "D" in pattern
PatternHas(pattern, letter) ==
    CASE letter = "B" -> pattern \in {"B", "BL", "BD", "BLD"}
      [] letter = "L" -> pattern \in {"L", "BL", "LD", "BLD"}
      [] letter = "D" -> pattern \in {"D", "LD", "BD", "BLD"}

\* faulty variant of MemberMealEntry: the stored record is not looked up
MemberMealEntryDefaultsOnly(mess, selected_date, member_id) ==
    LET pattern == members[member_id].default_meal_pattern
    IN  [member        |-> member_id,
         had_breakfast |-> PatternHas(pattern, "B"),
         had_lunch     |-> PatternHas(pattern, "L"),
         had_dinner    |-> PatternHas(pattern, "D"),
         extra_meals   |-> 0]

\* one element of members_meals: the stored record, or the member's default pattern
MemberMealEntry(mess, selected_date, member_id) ==
    LET existing == {m \in meals : m.mess = mess /\ m.date = selected_date /\ m.member = member_id}
    IN  IF existing # {}
        THEN LET meal == CHOOSE m \in existing : TRUE
             IN  [member        |-> member_id,
                  had_breakfast |-> meal.had_breakfast,
                  had_lunch     |-> meal.had_lunch,
                  had_dinner    |-> meal.had_dinner,
                  extra_meals   |-> meal.extra_meals]
        ELSE LET pattern == members[member_id].default_meal_pattern
             IN  [member        |-> member_id,
                  had_breakfast |-> PatternHas(pattern, "B"),
                  had_lunch     |-> PatternHas(pattern, "L"),
                  had_dinner    |-> PatternHas(pattern, "D"),
                  extra_meals   |-> 0]

\* faulty variant of SaveMeal: Meal.objects.create instead of get_or_create
SaveMealAlwaysCreate(table, mess, member_id, selected_date, entry) ==
    LET extra == ParseDecimal(entry.extra)
    IN  table \cup {[mess          |-> mess,
                     member        |-> member_id,
                     date          |-> selected_date,
                     had_breakfast |-> entry.breakfast,
                     had_lunch     |-> entry.lunch,
                     had_dinner    |-> entry.dinner,
                     extra_meals   |-> IF extra.ok THEN extra.value ELSE 0]}

\* Meal.objects.get_or_create(mess, member, date, defaults) followed, when the
\* row existed, by the four assignments and meal_obj.save()
SaveMeal(table, mess, member_id, selected_date, entry) ==
    LET extra    == ParseDecimal(entry.extra)
        row      == [mess          |-> mess,
                     member        |-> member_id,
                     date          |-> selected_date,
                     had_breakfast |-> entry.breakfast,
                     had_lunch     |-> entry.lunch,
                     had_dinner    |-> entry.dinner,
                     extra_meals   |-> IF extra.ok THEN extra.value ELSE 0]
        existing == {m \in table : m.mess = mess /\ m.member = member_id /\ m.date = selected_date}
    IN  IF existing = {} THEN table \cup {row}
        ELSE LET meal_obj == CHOOSE m \in existing : TRUE
             IN  (table \ {meal_obj}) \cup {row}

RECURSIVE SaveMeals(_, _, _, _, _)
\* the loop over the active members of the POST branch
SaveMeals(table, mess, member_ids, selected_date, post) ==
    IF member_ids = <<>> THEN table
    ELSE SaveMeals(SaveMeal(table, mess, Head(member_ids), selected_date, post[Head(member_ids)]),
                   mess, Tail(member_ids), selected_date, post)

\* selected_date is the date parsed from the request (today when absent or
\* malformed); post maps each active member's id to the submitted fields
meals_view(user, method, selected_date, post) ==
    LET mess == get_user_mess(user)
        user_is_super_admin      == is_mess_super_admin(user, mess)
        user_is_manager_for_date == is_meal_manager_for_date(user, mess, selected_date)
        date_not_allowed         == ~user_is_super_admin /\ ~user_is_manager_for_date
        member_ids               == ActiveMembers(mess)
    IN  (IF mess = Null THEN RedirectLogin("meals")
        ELSE IF method = "POST" /\ ~date_not_allowed
        THEN /\ meals' = SaveMeals(meals, mess, member_ids, selected_date, post)
             /\ response' = Reply("meals", "redirect", NoData)
             /\ UNCHANGED <<messes, memberships, members, expenses, deposits, assignments>>
        ELSE /\ response' = Reply("meals", "ok",
                                  [selected_date       |-> selected_date,
                                   date_not_allowed    |-> date_not_allowed,
                                   user_is_super_admin |-> user_is_super_admin,
                                   members_meals       |->
                                       [k \in DOMAIN member_ids |->
                                           MemberMealEntry(mess, selected_date, member_ids[k])]])
             /\ UNCHANGED db)
        /\ request' = Request(user, "meals", method, selected_date)
        /\ UNCHANGED <<accounts, inflight>>

-----------------------------------------------------------------------------
(* The stored state the requests start from: u1 and u2 have registered        *)
(* (register_view: a mess, the owner's super-admin MessUser row and the       *)
(* owner's Member row each), u3 has been given a MessUser row with role       *)
(* 'member' in u1's mess and a Member row with default pattern BLD, and u4    *)
(* is a user account without any MessUser row.  No meal, expense, deposit or  *)
(* assignment has been recorded.                                              *)

NewMess(owner) ==
    [name              |-> owner,
     owner             |-> owner,
     currency          |-> "BDT",
     include_breakfast |-> TRUE,
     breakfast_weight  |-> DefaultBreakfastWeight]

NewMember(mess, user, pattern) ==
    [mess |-> mess, user |-> user, name |-> user, is_active |-> TRUE,
     default_meal_pattern |-> pattern]

Init ==
    /\ messes = [m \in MessIds |-> IF m = 1 THEN NewMess("u1") ELSE NewMess("u2")]
    /\ memberships = << [mess |-> 1, user |-> "u1", role |-> ROLE_SUPER_ADMIN],
                        [mess |-> 2, user |-> "u2", role |-> ROLE_SUPER_ADMIN],
                        [mess |-> 1, user |-> "u3", role |-> ROLE_MEMBER] >>
    /\ members = << NewMember(1, "u1", "NONE"),
                    NewMember(2, "u2", "NONE"),
                    NewMember(1, "u3", "BLD") >>
    /\ meals = {}
    /\ expenses = <<>>
    /\ deposits = <<>>
    /\ assignments = <<>>
    /\ request = Request("none", "none", "none", Null)
    /\ response = Reply("none", "none", NoData)
    /\ accounts = Users
    /\ inflight = [w \in Workers |-> Idle]

-----------------------------------------------------------------------------
(* Request inputs *)

Feb01 == Date(2024, 2, 1)
Feb29 == Date(2024, 2, 29)
Mar01 == Date(2024, 3, 1)

Methods == {"GET", "POST"}

MealBL   == [breakfast |-> TRUE,  lunch |-> TRUE,  dinner |-> FALSE, extra |-> "0"]
MealLDx  == [breakfast |-> FALSE, lunch |-> TRUE,  dinner |-> TRUE,  extra |-> "0.5"]
MealNeg  == [breakfast |-> FALSE, lunch |-> FALSE, dinner |-> FALSE, extra |-> "-1"]

\* the POST bodies of the meal form: one entry per active member of the user's mess
MealPosts(user, entries) ==
    [Range(ActiveMembers(get_user_mess(user))) -> entries]

-----------------------------------------------------------------------------
(* SpecMeals: the dashboard over meal records, breakfast settings and active  *)
(* flags of u1's mess, with one expense amount and one deposit amount         *)

MealsRequest ==
    \/ \E post \in MealPosts("u1", {MealBL, MealLDx, MealNeg}) :
           meals_view("u1", "POST", Feb29, post)
    \/ \E post \in MealPosts("u1", {MealBL}) :
           meals_view("u1", "POST", Mar01, post)

SettingsRequest ==
    \E include \in BOOLEAN, w \in {"0.75", "abc"} :
        settings_view("u1", "POST", include, w)

AdminRequest == \E flag \in BOOLEAN : admin_member_change(3, flag)

ExpenseRequest == expense_view("u1", "POST", Feb29, "100")

DepositRequest == deposit_view("u1", "POST", Feb29, 3, "100")

DashboardRequest == \E month \in {2, 3} : dashboard_view("u1", 2024, month)

NextMeals ==
    \/ MealsRequest
    \/ SettingsRequest
    \/ AdminRequest
    \/ ExpenseRequest
    \/ DepositRequest
    \/ DashboardRequest

SpecMeals == Init /\ [][NextMeals]_vars

-----------------------------------------------------------------------------
(* Reference quantities of the claims, read directly off the stored rows *)

IsDash == response.view = "dashboard" /\ response.status = "ok"

Dash == response.data.dash

DashMess == response.data.mess

Abs(x) == IF x < 0 THEN -x ELSE x

\* first day of the month <= d < first day of the next month
RefInMonth(d, year, month) ==
    /\ d >= Date(year, month, 1)
    /\ d < (IF month = 12 THEN Date(year + 1, 1, 1) ELSE Date(year, month + 1, 1))

RefActive(mess) == {i \in DOMAIN members : members[i].mess = mess /\ members[i].is_active}

RefInactive(mess) == {i \in DOMAIN members : members[i].mess = mess /\ ~members[i].is_active}

\* the meal rows of one member of the mess in the month
RefMealRows(mess, member_id, year, month) ==
    {r \in meals : r.mess = mess /\ r.member = member_id /\ RefInMonth(r.date, year, month)}

\* meal units (in hundredths) of one member: breakfasts weighted when the mess
\* counts breakfast, lunches and dinners 1 each, extra meals as stored
RefMemberUnits(mess, member_id, year, month) ==
    LET rows == RefMealRows(mess, member_id, year, month)
        bw   == IF messes[mess].include_breakfast THEN messes[mess].breakfast_weight ELSE 0
    IN  bw * Cardinality({r \in rows : r.had_breakfast})
          + 100 * Cardinality({r \in rows : r.had_lunch})
          + 100 * Cardinality({r \in rows : r.had_dinner})
          + SumSet(rows, [r \in rows |-> r.extra_meals])

RefTotalUnits(mess, year, month) ==
    LET act == RefActive(mess)
    IN  SumSet(act, [i \in act |-> RefMemberUnits(mess, i, year, month)])

RefTotalExpense(mess, year, month) ==
    LET rows == {i \in DOMAIN expenses :
                    expenses[i].mess = mess /\ RefInMonth(expenses[i].date, year, month)}
    IN  SumSet(rows, [i \in rows |-> expenses[i].amount])

RefTotalCollected(mess, year, month) ==
    LET rows == {i \in DOMAIN deposits :
                    deposits[i].mess = mess /\ RefInMonth(deposits[i].date, year, month)}
    IN  SumSet(rows, [i \in rows |-> deposits[i].amount])

DashRows == {Dash.members[k] : k \in DOMAIN Dash.members}

-----------------------------------------------------------------------------
(* Claims on the dashboard *)

\* C1: whenever the total meal units of the active members in the month is 0,
\* the dashboard's meal_rate is 0, whatever the total expense is.
C1_ZeroMealsZeroRate ==
    IsDash /\ RefTotalUnits(DashMess, Dash.summary.year, Dash.summary.month) = 0
        => Dash.summary.meal_rate = 0

\* a dashboard of a month with meal rows that add up to 0 units and a positive expense
C1_Witness ==
    /\ IsDash
    /\ RefTotalUnits(DashMess, Dash.summary.year, Dash.summary.month) = 0
    /\ \E i \in RefActive(DashMess) :
          RefMealRows(DashMess, i, Dash.summary.year, Dash.summary.month) # {}
    /\ Dash.summary.total_expense > 0
    /\ Dash.summary.meal_rate = 0

\* C2: in every member row net = deposited - meal_cost, and status is 'due'
\* iff net < 0, 'advance' iff net > 0, 'settled' iff net = 0.
C2_NetAndStatus ==
    IsDash =>
        \A row \in DashRows :
            /\ row.net = row.deposited - row.meal_cost
            /\ (row.status = "due") <=> (row.net < 0)
            /\ (row.status = "advance") <=> (row.net > 0)
            /\ (row.status = "settled") <=> (row.net = 0)

\* a dashboard with a row in advance (deposit above a positive meal cost) and a row due
C2_Witness ==
    /\ IsDash
    /\ \E r1, r2 \in DashRows :
          /\ r1.status = "advance" /\ r1.meal_cost > 0 /\ r1.deposited > r1.meal_cost
          /\ r2.status = "due" /\ r2.net < 0

\* C3 (as stated): meal_cost is member_meal_units * meal_rate rounded to two
\* decimals with exact halves rounded up.
C3_RoundHalfUp ==
    IsDash =>
        \A row \in DashRows :
            LET p == RefMemberUnits(DashMess, row.id, Dash.summary.year, Dash.summary.month)
                       * Dash.summary.meal_rate
            IN  row.meal_cost = (2 * p + 100) \div 200

\* C3 (amended): meal_cost is member_meal_units * meal_rate rounded to the
\* nearest cent, an exact half going to the even cent (1.5 units at 66.67,
\* exact product 100.005, gives 100.00).
C3_RoundHalfEven ==
    IsDash =>
        \A row \in DashRows :
            LET p == RefMemberUnits(DashMess, row.id, Dash.summary.year, Dash.summary.month)
                       * Dash.summary.meal_rate
                e == Abs(100 * row.meal_cost - p)
            IN  /\ 2 * e <= 100
                /\ (2 * e = 100) => (row.meal_cost % 2 = 0)

\* the spec's example: 1.5 units at meal_rate 66.67, total expense 100.00
C3_Witness ==
    /\ IsDash
    /\ Dash.summary.total_expense = 10000
    /\ Dash.summary.meal_rate = 6667
    /\ \E row \in DashRows : row.meals = 150 /\ row.meal_cost = 10000

\* C4: whenever the total meal units of the active members is above 0,
\* meal_rate is total_expense / total units rounded to two decimals: it
\* differs from the exact quotient by at most half a cent.
C4_MealRateRounded ==
    IsDash =>
        LET T == RefTotalUnits(DashMess, Dash.summary.year, Dash.summary.month)
            E == RefTotalExpense(DashMess, Dash.summary.year, Dash.summary.month)
        IN  T > 0 => 2 * Abs(Dash.summary.meal_rate * T - 100 * E) <= T

\* a dashboard whose quotient is not a whole number of cents
C4_Witness ==
    /\ IsDash
    /\ LET T == RefTotalUnits(DashMess, Dash.summary.year, Dash.summary.month)
           E == RefTotalExpense(DashMess, Dash.summary.year, Dash.summary.month)
       IN  T > 0 /\ E > 0 /\ (100 * E) % T # 0 /\ 2 * ((100 * E) % T) > T

\* C6: a member's meal units are breakfast_weight per breakfast when the mess
\* counts breakfast and 0 per breakfast when it does not, 1 per lunch, 1 per
\* dinner, plus the extra meals as stored.
C6_BreakfastWeight ==
    IsDash =>
        \A row \in DashRows :
            row.meals = RefMemberUnits(DashMess, row.id, Dash.summary.year, Dash.summary.month)

\* a dashboard of a mess that does not count breakfast, with a breakfast recorded
C6_Witness ==
    /\ IsDash
    /\ ~messes[DashMess].include_breakfast
    /\ messes[DashMess].breakfast_weight > 0
    /\ \E row \in DashRows :
          /\ \E r \in RefMealRows(DashMess, row.id, Dash.summary.year, Dash.summary.month) :
                r.had_breakfast /\ r.had_lunch
          /\ row.meals = 100

\* C7: the member rows are exactly the active members of the mess, one row
\* each, and the meal rows of inactive members count neither in the grand
\* total of meal units nor in meal_rate.
C7_ActiveMembersOnly ==
    IsDash =>
        LET T == RefTotalUnits(DashMess, Dash.summary.year, Dash.summary.month)
            E == RefTotalExpense(DashMess, Dash.summary.year, Dash.summary.month)
        IN  /\ {row.id : row \in DashRows} = RefActive(DashMess)
            /\ Len(Dash.members) = Cardinality(RefActive(DashMess))
            /\ Dash.summary.active_members = Cardinality(RefActive(DashMess))
            /\ Dash.summary.total_meals = T
            /\ T > 0 => 2 * Abs(Dash.summary.meal_rate * T - 100 * E) <= T
            /\ T <= 0 => Dash.summary.meal_rate = 0

\* a dashboard of a month in which an inactive member has meal rows with units
C7_Witness ==
    /\ IsDash
    /\ Dash.summary.total_meals > 0
    /\ Dash.summary.total_expense > 0
    /\ \E i \in RefInactive(DashMess) :
          RefMemberUnits(DashMess, i, Dash.summary.year, Dash.summary.month) > 0

-----------------------------------------------------------------------------
(* SpecMoney: the dashboard totals over expenses and deposits of both messes, *)
(* dated on the first and the last day of February 2024 and on the day after  *)

MoneyExpenseRequest ==
    \E user \in {"u1", "u2"}, d \in {Feb01, Feb29, Mar01}, amount \in {"25.50", "100"} :
        expense_view(user, "POST", d, amount)

MoneyDepositRequest ==
    \E user \in {"u1", "u2"}, d \in {Feb01, Feb29, Mar01}, m \in {2, 3} :
        deposit_view(user, "POST", d, m, "50")

MoneyDashboardRequest ==
    \E user \in {"u1", "u2"}, month \in {2, 3} : dashboard_view(user, 2024, month)

NextMoney ==
    \/ MoneyExpenseRequest
    \/ MoneyDepositRequest
    \/ MoneyDashboardRequest

SpecMoney == Init /\ [][NextMoney]_vars

\* the mess_balance calculate_dashboard computes for a mess and a month of 2024
BalanceOf(mess, month) ==
    MessBalance(TotalCollected(mess, get_month_date_range(2024, month)),
                TotalExpense(mess, get_month_date_range(2024, month)))

\* C5: mess_balance is total_collected - total_expense of the month, and a
\* request that leaves the expense and deposit rows alone (it changes meal
\* rows, active flags or breakfast settings) leaves the mess_balance of every
\* mess and month unchanged.
C5_BalanceIsCashFlow ==
    /\ [](IsDash =>
            /\ Dash.summary.mess_balance =
                  RefTotalCollected(DashMess, Dash.summary.year, Dash.summary.month)
                    - RefTotalExpense(DashMess, Dash.summary.year, Dash.summary.month)
            /\ Dash.summary.mess_balance = BalanceOf(DashMess, Dash.summary.month))
    /\ [][(expenses' = expenses /\ deposits' = deposits) =>
            \A mess \in MessIds, month \in {2, 3} :
                BalanceOf(mess, month)' = BalanceOf(mess, month)]_vars

\* a dashboard whose balance counts the deposit of a member who is inactive,
\* and differs from the sum of the member rows' nets
C5_Witness ==
    /\ IsDash
    /\ Dash.summary.total_expense > 0
    /\ Dash.summary.total_meals > 0
    /\ \E i \in DOMAIN deposits :
          /\ deposits[i].mess = DashMess
          /\ deposits[i].member \in RefInactive(DashMess)
          /\ Dash.summary.total_collected = deposits[i].amount
    /\ Dash.summary.mess_balance #
          SumSet(DOMAIN Dash.members, [k \in DOMAIN Dash.members |-> Dash.members[k].net])

\* C8: total_expense and total_collected are the sums of the mess's expense
\* resp. deposit amounts dated from the first to the last day of the month,
\* both included; rows of other days or of another mess are not counted, and
\* without such rows the totals are 0.
C8_TotalsOfTheMonth ==
    IsDash =>
        LET first == Date(Dash.summary.year, Dash.summary.month, 1)
            next  == IF Dash.summary.month = 12
                     THEN Date(Dash.summary.year + 1, 1, 1)
                     ELSE Date(Dash.summary.year, Dash.summary.month + 1, 1)
            exp   == {i \in DOMAIN expenses :
                         /\ expenses[i].mess = DashMess
                         /\ first <= expenses[i].date
                         /\ expenses[i].date <= next - 1}
            dep   == {i \in DOMAIN deposits :
                         /\ deposits[i].mess = DashMess
                         /\ first <= deposits[i].date
                         /\ deposits[i].date <= next - 1}
        IN  /\ Dash.summary.total_expense = SumSet(exp, [i \in exp |-> expenses[i].amount])
            /\ Dash.summary.total_collected = SumSet(dep, [i \in dep |-> deposits[i].amount])
            /\ exp = {} => Dash.summary.total_expense = 0
            /\ dep = {} => Dash.summary.total_collected = 0

\* the February dashboard of a mess with an expense on the last day of
\* February, counted, and one on the day after, not counted, while the other
\* mess has rows in February too
C8_Witness ==
    /\ IsDash
    /\ Dash.summary.month = 2
    /\ \E i, j \in DOMAIN expenses :
          /\ expenses[i].mess = DashMess /\ expenses[i].date = Feb29
          /\ expenses[j].mess = DashMess /\ expenses[j].date = Mar01
          /\ Dash.summary.total_expense = expenses[i].amount
    /\ Dash.summary.total_collected = 0

-----------------------------------------------------------------------------
(* SpecEntry: the meal form submitted by the super-admin u1, by u3 with and   *)
(* without a manager assignment covering the date, and by u4 without a mess   *)

EntryAssignRequest ==
    \/ \E user \in {"u1", "u3"} :
          manager_assignments_view(user, "POST", "u3", "custom", Feb29, Feb29)
    \/ manager_assignments_view("u1", "POST", "u3", "1_week", Mar01, Null)

EntryMealsRequest ==
    \E user \in {"u1", "u3", "u4"}, method \in Methods, d \in {Feb01, Feb29, Mar01} :
        \E post \in MealPosts(user, {MealBL, MealLDx}) :
            meals_view(user, method, d, post)

NextEntry ==
    \/ EntryAssignRequest
    \/ EntryMealsRequest

SpecEntry == Init /\ [][NextEntry]_vars

\* the user is a super-admin of the mess, or holds a manager assignment in the
\* mess whose [start_date, end_date] contains d
RefMayEnter(user, mess, d) ==
    \/ \E i \in DOMAIN memberships :
          memberships[i] = [mess |-> mess, user |-> user, role |-> "super_admin"]
    \/ \E i \in DOMAIN assignments :
          /\ assignments[i].mess = mess
          /\ assignments[i].manager_user = user
          /\ assignments[i].start_date <= d
          /\ d <= assignments[i].end_date

\* C9: a meal-entry request by a user who is neither super-admin of the mess
\* nor its assigned manager for the request's date leaves the meal rows
\* unchanged, and every meal row a request creates or changes is a row of the
\* request's date in a mess the requesting user may enter for that date.
C9_OnlyAuthorizedEntry ==
    [][ /\ (/\ request'.view = "meals"
            /\ \A mess \in MessIds : ~RefMayEnter(request'.user, mess, request'.date))
              => meals' = meals
        /\ meals' # meals =>
              /\ request'.view = "meals"
              /\ request'.method = "POST"
              /\ \A r \in (meals' \ meals) \cup (meals \ meals') :
                    /\ r.date = request'.date
                    /\ RefMayEnter(request'.user, r.mess, r.date) ]_vars

\* u3, who holds an assignment that does not contain the submitted date, has
\* posted the meal form and was refused, while meal rows are stored
C9_Witness ==
    /\ request.view = "meals" /\ request.method = "POST" /\ request.user = "u3"
    /\ response.status = "ok" /\ response.data.date_not_allowed
    /\ \E i \in DOMAIN assignments :
          /\ assignments[i].manager_user = "u3"
          /\ ~(assignments[i].start_date <= request.date /\ request.date <= assignments[i].end_date)
          /\ \E r \in meals : r.date = assignments[i].start_date
    /\ \A r \in meals : r.date # request.date

-----------------------------------------------------------------------------
(* SpecAuth: the five super-admin forms requested by the super-admin u1, by   *)
(* u3 (role 'member' in u1's mess) and by u4 (no mess)                        *)

AuthExpenseRequest ==
    \E user \in {"u1", "u3", "u4"}, method \in Methods :
        expense_view(user, method, Feb29, "100")

AuthDepositRequest ==
    \E user \in {"u1", "u3", "u4"}, method \in Methods :
        deposit_view(user, method, Feb29, 3, "50")

AuthSettingsRequest ==
    \E user \in {"u1", "u3", "u4"}, method \in Methods :
        settings_view(user, method, FALSE, "0.75")

AuthAssignRequest ==
    \E user \in {"u1", "u3", "u4"}, method \in Methods :
        manager_assignments_view(user, method, "u3", "1_week", Feb29, Null)

AuthMemberRequest ==
    \E user \in {"u1", "u3", "u4"}, method \in Methods :
        member_add_view(user, method, "guest", Null, TRUE, "BLD")

NextAuth ==
    \/ AuthExpenseRequest
    \/ AuthDepositRequest
    \/ AuthSettingsRequest
    \/ AuthAssignRequest
    \/ AuthMemberRequest

SpecAuth == Init /\ [][NextAuth]_vars

RefSuperAdmin(user, mess) ==
    \E i \in DOMAIN memberships :
        memberships[i] = [mess |-> mess, user |-> user, role |-> "super_admin"]

\* C10: a request to the expense, deposit, settings, manager-assignment or
\* add-member form by a user who is not a super-admin of the mess the request
\* is for is answered 403 Forbidden and leaves every stored row unchanged.
C10_ForbiddenWithoutSuperAdmin ==
    [][ (/\ request'.view \in {"expense", "deposit", "settings", "managers", "member_add"}
         /\ get_user_mess(request'.user) # Null
         /\ ~RefSuperAdmin(request'.user, get_user_mess(request'.user)))
           => (response'.status = "forbidden" /\ UNCHANGED db) ]_vars

\* u3 has posted a deposit and was refused, with rows of every kind stored
C10_Witness ==
    /\ request.view = "deposit" /\ request.method = "POST" /\ request.user = "u3"
    /\ response.status = "forbidden"
    /\ expenses # <<>> /\ deposits # <<>> /\ assignments # <<>>
    /\ Len(members) > 3
    /\ ~messes[1].include_breakfast

-----------------------------------------------------------------------------
(* SpecManagers: the super-admins u1 and u2 submit the assignment form for    *)
(* the users of their mess (one day, one week from Feb 29, fifteen days from  *)
(* Feb 1, an end date before the start date, 'custom' without an end date,    *)
(* and the one-week preset from Feb 1 with the end date Feb 29); u1 and u3    *)
(* open and submit the meal form, u1 and u2 open the dashboard, and u1 and    *)
(* u3 submit the settings form with breakfast switched off                    *)

Feb15 == Date(2024, 2, 15)
Feb16 == Date(2024, 2, 16)
Mar06 == Date(2024, 3, 6)
Mar07 == Date(2024, 3, 7)

\* the submitted period_choice, start_date and end_date fields
AssignSubmissions ==
    { [period |-> "custom",  start |-> Feb29, end |-> Feb29],
      [period |-> "1_week",  start |-> Feb29, end |-> Null],
      [period |-> "15_days", start |-> Feb01, end |-> Null],
      [period |-> "custom",  start |-> Feb29, end |-> Feb01],
      [period |-> "custom",  start |-> Feb29, end |-> Null],
      [period |-> "1_week",  start |-> Feb01, end |-> Feb29] }

ManagersAssignRequest ==
    \E user \in {"u1", "u2"} :
        \E manager \in MessUsers(get_user_mess(user)), sub \in AssignSubmissions :
            manager_assignments_view(user, "POST", manager, sub.period, sub.start, sub.end)

ManagersMealsRequest ==
    \/ \E user \in {"u1", "u3"}, d \in {Feb01, Feb15, Feb16, Feb29, Mar06, Mar07} :
          \E post \in MealPosts(user, {MealBL}) : meals_view(user, "GET", d, post)
    \/ \E user \in {"u1", "u3"} :
          \E post \in MealPosts(user, {MealBL}) : meals_view(user, "POST", Mar06, post)

ManagersDashboardRequest ==
    \E user \in {"u1", "u2"} : dashboard_view(user, 2024, 2)

ManagersSettingsRequest ==
    \E user \in {"u1", "u3"} : settings_view(user, "POST", FALSE, "0.5")

NextManagers ==
    \/ ManagersAssignRequest
    \/ ManagersMealsRequest
    \/ ManagersDashboardRequest
    \/ ManagersSettingsRequest

SpecManagers == Init /\ [][NextManagers]_vars

\* the days covered by the assignments of the user in the mess
RefManagedDays(user, mess) ==
    UNION { assignments[i].start_date .. assignments[i].end_date :
              i \in {j \in DOMAIN assignments :
                        assignments[j].mess = mess /\ assignments[j].manager_user = user} }

ProbeDates == {Feb01 - 1, Feb01, Feb15, Feb16, Feb29 - 1, Feb29, Mar06, Mar07}

\* C11: is_meal_manager_for_date(user, mess, d) is true iff d lies in
\* [start_date, end_date], both ends included, of some assignment of that user
\* in that mess; the meal form of a user who is not super-admin is marked
\* date_not_allowed exactly on the other days.
C11_ManagerForDate ==
    /\ \A user \in Users, mess \in MessIds, d \in ProbeDates :
          is_meal_manager_for_date(user, mess, d) <=> d \in RefManagedDays(user, mess)
    /\ (request.view = "meals" /\ request.method = "GET" /\ request.user = "u3")
          => (response.data.date_not_allowed <=> request.date \notin RefManagedDays("u3", 1))

\* u3 has opened the meal form for the last day of the own one-week assignment
\* and may enter; another user holds an assignment for days that u3 does not
C11_Witness ==
    /\ request.view = "meals" /\ request.method = "GET" /\ request.user = "u3"
    /\ request.date = Mar06
    /\ ~response.data.date_not_allowed
    /\ \E i \in DOMAIN assignments :
          /\ assignments[i].manager_user = "u3" /\ assignments[i].end_date = Mar06
    /\ \E i \in DOMAIN assignments :
          /\ assignments[i].manager_user = "u1" /\ assignments[i].mess = 1
          /\ assignments[i].start_date = Feb01
    /\ ~is_meal_manager_for_date("u3", 1, Feb01)
    /\ ~is_meal_manager_for_date("u3", 2, Mar06)
    /\ ~is_meal_manager_for_date("u3", 1, Mar07)

-----------------------------------------------------------------------------
(* SpecRoles: MessUser rows of every role are added on the admin site, in     *)
(* both messes, and every user opens the dashboard and the settings form      *)

RolesAdminRequest ==
    \E mess \in MessIds, user \in Users,
       role \in {ROLE_SUPER_ADMIN, ROLE_MANAGER, ROLE_MEMBER} :
        admin_messuser_add(mess, user, role)

RolesDashboardRequest == \E user \in Users : dashboard_view(user, 2024, 2)

RolesSettingsRequest == \E user \in Users : settings_view(user, "GET", TRUE, "0.5")

NextRoles ==
    \/ RolesAdminRequest
    \/ RolesDashboardRequest
    \/ RolesSettingsRequest

SpecRoles == Init /\ [][NextRoles]_vars

\* C12: is_mess_super_admin(user, mess) is true iff a MessUser row with that
\* user, that mess and role 'super_admin' exists: the dashboard's
\* user_is_super_admin flag and the settings form's 403 follow that row alone,
\* not a 'manager' or 'member' row nor a 'super_admin' row in another mess.
C12_SuperAdminOfTheMess ==
    /\ \A user \in Users, mess \in MessIds :
          is_mess_super_admin(user, mess)
             <=> [mess |-> mess, user |-> user, role |-> "super_admin"] \in Range(memberships)
    /\ IsDash => (response.data.user_is_super_admin <=> RefSuperAdmin(request.user, DashMess))
    /\ (request.view = "settings" /\ response.status # "redirect_login")
          => (response.status = "forbidden"
                 <=> ~RefSuperAdmin(request.user, get_user_mess(request.user)))

\* u3, a 'member' of mess 1 and super-admin of mess 2, has opened the dashboard
\* of mess 1 and is not shown as its super-admin, while mess 1 has a 'manager'
C12_Witness ==
    /\ IsDash /\ request.user = "u3" /\ DashMess = 1
    /\ ~response.data.user_is_super_admin
    /\ [mess |-> 2, user |-> "u3", role |-> "super_admin"] \in Range(memberships)
    /\ \E i \in DOMAIN memberships :
          memberships[i].mess = 1 /\ memberships[i].role = "manager"

-----------------------------------------------------------------------------
(* Claims on the stored meal rows *)

MealKey(r) == <<r.mess, r.member, r.date>>

MealKeys(table) == {MealKey(r) : r \in table}

\* C13: there is at most one meal row for each (mess, member, date), and a
\* save for keys that have a row keeps one row per key instead of adding a
\* second one: the table grows by exactly the keys that had no row.
C13_OneMealPerKey ==
    /\ [](\A r1, r2 \in meals : MealKey(r1) = MealKey(r2) => r1 = r2)
    /\ [][(request'.view = "meals" /\ response'.status = "redirect") =>
             /\ Cardinality(meals') = Cardinality(MealKeys(meals'))
             /\ MealKeys(meals) \subseteq MealKeys(meals')
             /\ Cardinality(meals') - Cardinality(meals)
                   = Cardinality(MealKeys(meals') \ MealKeys(meals))]_vars

\* the meal form of Feb 29 has just been saved while member 3 is inactive, and
\* member 3 has a row of that date: it was written by an earlier save, which
\* wrote the row of member 1 too, so the key of member 1 has been saved twice
C13_Witness ==
    /\ request.view = "meals" /\ request.method = "POST" /\ request.date = Feb29
    /\ response.status = "redirect"
    /\ ~members[3].is_active
    /\ \E r \in meals : r.date = Feb29 /\ r.member = 3 /\ r.had_dinner
    /\ \E r \in meals : r.date = Feb29 /\ r.member = 1 /\ r.had_breakfast
    /\ Cardinality({r \in meals : r.date = Feb29}) = 2

\* C17: every stored meal row has extra_meals >= 0.
C17_ExtraMealsNonNegative == \A r \in meals : r.extra_meals >= 0

-----------------------------------------------------------------------------
(* Claims on the manager assignments *)

\* C16: every stored assignment has end_date >= start_date, so that its
\* total_days, (end_date - start_date) in days + 1, is at least 1; a submitted
\* assignment form whose end date is before its start date is shown again
\* with the error and stores nothing.
C16_EndNotBeforeStart ==
    /\ [](\A i \in DOMAIN assignments :
             /\ assignments[i].end_date >= assignments[i].start_date
             /\ total_days(assignments[i]) = assignments[i].end_date - assignments[i].start_date + 1
             /\ total_days(assignments[i]) >= 1)
    /\ [][\A user \in {"u1", "u2"}, manager \in Users, sub \in AssignSubmissions :
             (/\ sub.end # Null
              /\ sub.end < sub.start
              /\ manager_assignments_view(user, "POST", manager, sub.period, sub.start, sub.end))
                => (assignments' = assignments /\ response'.status = "ok")]_vars

\* the form with start date Feb 29 and an earlier end date has been submitted
\* (the only submission that is answered with the form again) while a one-day
\* assignment is stored
C16_Witness ==
    /\ request.view = "managers" /\ request.method = "POST" /\ request.date = Feb29
    /\ response.status = "ok"
    /\ \E i \in DOMAIN assignments : total_days(assignments[i]) = 1
    /\ \E i \in DOMAIN assignments : total_days(assignments[i]) = 15

\* the assignment rows of the user in the mess
RefAssignmentsOf(user, mess) ==
    {i \in DOMAIN assignments :
        assignments[i].mess = mess /\ assignments[i].manager_user = user}

\* C20: the manager statistics have exactly one entry for each user with an
\* assignment in the mess, with total_days the sum of the days of the user's
\* assignments and assignment_count their number, and no entry for a user
\* without an assignment in the mess.
C20_ManagerStatsPerUser ==
    IsDash =>
        \A user \in Users :
            LET rows == RefAssignmentsOf(user, DashMess)
                hits == {k \in DOMAIN Dash.manager_stats : Dash.manager_stats[k].name = user}
            IN  IF rows = {} THEN hits = {}
                ELSE /\ Cardinality(hits) = 1
                     /\ \A k \in hits :
                          /\ Dash.manager_stats[k].total_days =
                                SumSet(rows, [i \in rows |->
                                    assignments[i].end_date - assignments[i].start_date + 1])
                          /\ Dash.manager_stats[k].assignment_count = Cardinality(rows)

\* a dashboard of mess 1 in which u3 holds a one-day and a one-week assignment:
\* one entry, 8 days, 2 assignments
C20_Witness ==
    /\ IsDash /\ DashMess = 1
    /\ Cardinality(RefAssignmentsOf("u3", 1)) = 2
    /\ Len(Dash.manager_stats) = 1
    /\ Dash.manager_stats[1].name = "u3"
    /\ Dash.manager_stats[1].total_days = 8
    /\ Dash.manager_stats[1].assignment_count = 2

\* C18: a dashboard request that follows a dashboard request for the same
\* mess, year and month, with no stored row changed in between, gets the same
\* summary, member rows and manager statistics, in whatever order the database
\* returns the rows.
C18_DashboardIdempotent ==
    [][(/\ IsDash /\ IsDash'
        /\ DashMess' = DashMess
        /\ Dash.summary.year' = Dash.summary.year
        /\ Dash.summary.month' = Dash.summary.month
        /\ UNCHANGED db)
          => Dash' = Dash]_vars

-----------------------------------------------------------------------------
(* Claims on the read-only service functions *)

\* C19: calculate_dashboard, is_mess_super_admin and is_meal_manager_for_date
\* change no stored row: a dashboard request (calculate_dashboard and
\* is_mess_super_admin), an opened meal form (both permission checks) and a
\* request refused by is_mess_super_admin leave the Mess, MessUser, Member,
\* Meal, Expense, Deposit and MealManagerAssignment rows as they were.
C19_ServicesReadOnly ==
    [][(\/ request'.view = "dashboard"
        \/ (request'.view = "meals" /\ request'.method = "GET")
        \/ response'.status = "forbidden")
          => UNCHANGED db]_vars

\* a dashboard computed for a mess that has switched breakfast off, with
\* assignments and meal rows stored
C19_Witness ==
    /\ IsDash /\ DashMess = 1
    /\ ~messes[1].include_breakfast
    /\ messes[1].breakfast_weight = 50
    /\ Dash.summary.breakfast_weight = 0
    /\ Len(Dash.manager_stats) = 2
    /\ meals # {}

-----------------------------------------------------------------------------
(* views.py: register_view *)

\* the statement of register_view at which the database raises, or "none";
\* the database runs in autocommit mode (no ATOMIC_REQUESTS, no
\* transaction.atomic), so the statements before the failing one stay committed
FailPoints == {"none", "user", "mess", "membership", "member"}

\* UserCreationForm is valid when the username is not taken; the statements
\* are form.save(), Mess.objects.create, MessUser.objects.create and
\* Member.objects.create, in this order
register_view(username, fail_at) ==
    LET new_mess == Cardinality(DOMAIN messes) + 1
    IN  /\ IF username \in accounts
           THEN /\ response' = Reply("register", "ok", NoData)
                /\ UNCHANGED <<db, accounts>>
           ELSE /\ accounts' = IF fail_at = "user" THEN accounts
                               ELSE accounts \cup {username}
                /\ messes' = IF fail_at \in {"user", "mess"} THEN messes
                             ELSE messes @@ (new_mess :> NewMess(username))
                /\ memberships' = IF fail_at \in {"user", "mess", "membership"}
                                  THEN memberships
                                  ELSE Append(memberships,
                                              [mess |-> new_mess, user |-> username,
                                               role |-> ROLE_SUPER_ADMIN])
                /\ members' = IF fail_at # "none" THEN members
                              ELSE Append(members, NewMember(new_mess, username, "NONE"))
                /\ response' = IF fail_at = "none"
                               THEN Reply("register", "redirect", NoData)
                               ELSE Reply("register", "error", NoData)
                /\ UNCHANGED <<meals, expenses, deposits, assignments>>
        /\ request' = Request("anonymous", "register", "POST", Null)
        /\ UNCHANGED inflight

-----------------------------------------------------------------------------
(* SpecRegister: the usernames u5 and u6 and the taken username u1 are        *)
(* registered, with the database failing at any statement or at none, and     *)
(* the users open the dashboard                                               *)

RegNames == {"u5", "u6"}

RegisterRequest ==
    \E username \in RegNames \cup {"u1"}, fail_at \in FailPoints :
        register_view(username, fail_at)

RegisterDashboardRequest ==
    \E user \in RegNames \cup {"u1"} : dashboard_view(user, 2024, 2)

NextRegister ==
    \/ RegisterRequest
    \/ RegisterDashboardRequest

SpecRegister == Init /\ [][NextRegister]_vars

\* C15: after a registration request has ended, with success or with a
\* failure at any statement, the new user's mess, the owner's super-admin
\* MessUser row and the owner's Member row exist all three or none of them.
C15_RegistrationAllOrNothing ==
    \A username \in RegNames :
        LET owned      == {m \in DOMAIN messes : messes[m].owner = username}
            membership == \E i \in DOMAIN memberships :
                              /\ memberships[i].user = username
                              /\ memberships[i].mess \in owned
                              /\ memberships[i].role = "super_admin"
            member     == \E i \in DOMAIN members :
                              members[i].user = username /\ members[i].mess \in owned
        IN  \/ owned # {} /\ membership /\ member
            \/ owned = {} /\ ~membership /\ ~member

-----------------------------------------------------------------------------
(* views.py: meals_view on POST, statement by statement.  A worker evaluates  *)
(* the permission checks and the list of active members, then runs the loop   *)
(* of lines 233-260 one database statement at a time; another worker's        *)
(* statements may come in between.  request and response are those of the     *)
(* last request that has been answered.                                       *)

\* the field values a submitted entry gives the row of a member
MealRow(mess, member_id, selected_date, entry) ==
    LET extra == ParseDecimal(entry.extra)
    IN  [mess          |-> mess,
         member        |-> member_id,
         date          |-> selected_date,
         had_breakfast |-> entry.breakfast,
         had_lunch     |-> entry.lunch,
         had_dinner    |-> entry.dinner,
         extra_meals   |-> IF extra.ok THEN extra.value ELSE 0]

\* faulty variant of UpdateMeal: only the fields that differ from the fetched
\* object are written (save(update_fields=changed))
UpdateChangedFields(table, meal_obj, row) ==
    LET current == CHOOSE m \in table : MealKey(m) = MealKey(meal_obj)
    IN  (table \ {current}) \cup
        {[current EXCEPT
            !.had_breakfast = IF row.had_breakfast # meal_obj.had_breakfast
                              THEN row.had_breakfast ELSE @,
            !.had_lunch     = IF row.had_lunch # meal_obj.had_lunch
                              THEN row.had_lunch ELSE @,
            !.had_dinner    = IF row.had_dinner # meal_obj.had_dinner
                              THEN row.had_dinner ELSE @,
            !.extra_meals   = IF row.extra_meals # meal_obj.extra_meals
                              THEN row.extra_meals ELSE @]}

\* meal_obj.save() after the four assignments: UPDATE of every column of the
\* row with the primary key of the fetched object
UpdateMeal(table, meal_obj, row) ==
    {m \in table : MealKey(m) # MealKey(meal_obj)} \cup {row}

\* the loop moves on to the next member, or the view answers with the redirect
NextMember(w) ==
    LET f == inflight[w]
    IN  IF Len(f.todo) = 1
        THEN /\ inflight' = [inflight EXCEPT ![w] = Idle]
             /\ request' = Request(f.user, "meals", "POST", f.date)
             /\ response' = Reply("meals", "redirect", NoData)
        ELSE /\ inflight' = [inflight EXCEPT ![w] =
                                [f EXCEPT !.pc = "lookup", !.todo = Tail(@), !.meal_obj = Null]]
             /\ UNCHANGED <<request, response>>

\* lines 98-166 and the test of line 232
meals_view_begin(w, user, selected_date, post) ==
    LET mess == get_user_mess(user)
        user_is_super_admin      == is_mess_super_admin(user, mess)
        user_is_manager_for_date == is_meal_manager_for_date(user, mess, selected_date)
        date_not_allowed         == ~user_is_super_admin /\ ~user_is_manager_for_date
        member_ids               == ActiveMembers(mess)
    IN  /\ inflight[w] = Idle
        /\ IF mess = Null
           THEN /\ request' = Request(user, "meals", "POST", selected_date)
                /\ response' = Reply("meals", "redirect_login", NoData)
                /\ UNCHANGED inflight
           ELSE IF date_not_allowed
           THEN /\ request' = Request(user, "meals", "POST", selected_date)
                /\ response' = Reply("meals", "ok",
                                     [selected_date       |-> selected_date,
                                      date_not_allowed    |-> date_not_allowed,
                                      user_is_super_admin |-> user_is_super_admin,
                                      members_meals       |->
                                          [k \in DOMAIN member_ids |->
                                              MemberMealEntry(mess, selected_date, member_ids[k])]])
                /\ UNCHANGED inflight
           ELSE IF member_ids = <<>>
           THEN /\ request' = Request(user, "meals", "POST", selected_date)
                /\ response' = Reply("meals", "redirect", NoData)
                /\ UNCHANGED inflight
           ELSE /\ inflight' = [inflight EXCEPT ![w] =
                                   [pc |-> "lookup", user |-> user, mess |-> mess,
                                    date |-> selected_date, post |-> post,
                                    todo |-> member_ids, meal_obj |-> Null]]
                /\ UNCHANGED <<request, response>>
        /\ UNCHANGED <<db, accounts>>

\* get_or_create: the SELECT by (mess, member, date)
get_or_create_lookup(w) ==
    LET f        == inflight[w]
        existing == {m \in meals : MealKey(m) = <<f.mess, Head(f.todo), f.date>>}
    IN  /\ f.pc = "lookup"
        /\ inflight' = [inflight EXCEPT ![w] =
                           IF existing = {} THEN [f EXCEPT !.pc = "insert"]
                           ELSE [f EXCEPT !.pc = "save",
                                          !.meal_obj = CHOOSE m \in existing : TRUE]]
        /\ UNCHANGED <<db, accounts, request, response>>

\* get_or_create: the INSERT with the defaults; when the unique constraint
\* rejects it (the row was inserted since the SELECT) the IntegrityError is
\* caught and the row is fetched, created = False
get_or_create_insert(w) ==
    LET f        == inflight[w]
        m        == Head(f.todo)
        existing == {r \in meals : MealKey(r) = <<f.mess, m, f.date>>}
    IN  /\ f.pc = "insert"
        /\ IF existing = {}
           THEN /\ meals' = meals \cup {MealRow(f.mess, m, f.date, f.post[m])}
                /\ NextMember(w)
           ELSE /\ inflight' = [inflight EXCEPT ![w] =
                                   [f EXCEPT !.pc = "save",
                                             !.meal_obj = CHOOSE r \in existing : TRUE]]
                /\ UNCHANGED <<meals, request, response>>
        /\ UNCHANGED <<messes, memberships, members, expenses, deposits, assignments, accounts>>

\* lines 255-260: the four assignments and meal_obj.save()
meal_obj_save(w) ==
    LET f == inflight[w]
        m == Head(f.todo)
    IN  /\ f.pc = "save"
        /\ meals' = UpdateMeal(meals, f.meal_obj, MealRow(f.mess, m, f.date, f.post[m]))
        /\ NextMember(w)
        /\ UNCHANGED <<messes, memberships, members, expenses, deposits, assignments, accounts>>

-----------------------------------------------------------------------------
(* SpecRace: two workers handle meal forms of Feb 29 submitted by u2, the     *)
(* super-admin of mess 2 (one member, so one row per date), and by u3, who    *)
(* may not enter meals                                                        *)

RaceEntries == {MealBL, MealLDx, MealNeg}

RaceBegin ==
    \E w \in Workers, user \in {"u2", "u3"} :
        \E post \in MealPosts(user, RaceEntries) : meals_view_begin(w, user, Feb29, post)

RaceLookup == \E w \in Workers : get_or_create_lookup(w)

RaceInsert == \E w \in Workers : get_or_create_insert(w)

RaceSave == \E w \in Workers : meal_obj_save(w)

NextRace ==
    \/ RaceBegin
    \/ RaceLookup
    \/ RaceInsert
    \/ RaceSave

SpecRace == Init /\ [][NextRace]_vars

\* the worker executes a statement that writes a meal row
WriteStep(w) ==
    /\ inflight[w].pc \in {"insert", "save"}
    /\ inflight'[w] # inflight[w]
    /\ ~(inflight[w].pc = "insert" /\ inflight'[w].pc = "save")

\* C14: when meal forms for the same (mess, member, date) are processed
\* interleaved, the key has one row; every write leaves the row with the four
\* values its writer submitted, so the row that remains is that of the last
\* writer; no row mixes the values of two submissions; no write is refused.
C14_LastWriteWins ==
    /\ [](\A r1, r2 \in meals : MealKey(r1) = MealKey(r2) => r1 = r2)
    /\ [](\A r \in meals :
             \E e \in RaceEntries : r = MealRow(r.mess, r.member, r.date, e))
    /\ [](response.view = "meals" => response.status # "error")
    /\ [][/\ \A w \in Workers :
                WriteStep(w) =>
                    LET f    == inflight[w]
                        key  == <<f.mess, Head(f.todo), f.date>>
                        mine == MealRow(f.mess, Head(f.todo), f.date, f.post[Head(f.todo)])
                    IN  /\ {r \in meals' : MealKey(r) = key} = {mine}
                        /\ {r \in meals' : MealKey(r) # key} = {r \in meals : MealKey(r) # key}
          /\ meals' # meals => \E w \in Workers : WriteStep(w)]_vars

\* both workers are about to save different submissions over the row of one
\* key: w1 has fetched the stored row, w2 holds a copy fetched earlier that
\* has been overwritten since
C14_Witness ==
    /\ inflight["w1"].pc = "save"
    /\ inflight["w1"].meal_obj \in meals
    /\ inflight["w1"].meal_obj # MealRow(2, 2, Feb29, inflight["w1"].post[2])
    /\ inflight["w2"].pc = "save"
    /\ inflight["w2"].meal_obj \notin meals
    /\ inflight["w2"].post[2] # inflight["w1"].post[2]

\* the position in the read order of the first of the user's assignments
\* that has the user's latest start_date
RefFirstLatest(order, user) ==
    LET mine   == {i \in DOMAIN order : assignments[order[i]].manager_user = user}
        latest == CHOOSE d \in {assignments[order[i]].start_date : i \in mine} :
                      \A i \in mine : assignments[order[i]].start_date <= d
    IN  Min({i \in mine : assignments[order[i]].start_date = latest})

\* C21: in each manager-statistics entry last_start and last_end are the
\* dates of the user's assignment with the latest start_date; of several
\* assignments with that start_date, it is the one read first.
C21_LastPeriod ==
    /\ \A mess \in MessIds :
          \A order \in AssignmentOrders(mess) :
              \A k \in DOMAIN ManagerStats(order) :
                  LET entry == ManagerStats(order)[k]
                      a     == assignments[order[RefFirstLatest(order, entry.name)]]
                  IN  /\ entry.last_start = a.start_date
                      /\ entry.last_end = a.end_date
    /\ IsDash => \E order \in AssignmentOrders(DashMess) :
                    Dash.manager_stats = ManagerStats(order)

\* a dashboard of mess 1 in which u3 holds two assignments that start on
\* Feb 29, of one day and of one week, and the last period shown is the one day
C21_Witness ==
    /\ IsDash /\ DashMess = 1
    /\ \E i, j \in RefAssignmentsOf("u3", 1) :
          /\ assignments[i].start_date = Feb29 /\ assignments[i].end_date = Feb29
          /\ assignments[j].start_date = Feb29 /\ assignments[j].end_date = Mar06
    /\ Dash.manager_stats[1].last_start = Feb29
    /\ Dash.manager_stats[1].last_end = Feb29

\* the number of days a preset stands for
RefPresetDays(period_choice) ==
    CASE period_choice = "1_week"  -> 7
      [] period_choice = "2_weeks" -> 14
      [] period_choice = "3_weeks" -> 21
      [] period_choice = "4_weeks" -> 28
      [] period_choice = "15_days" -> 15
      [] period_choice = "30_days" -> 30

\* C24: a stored assignment with a week preset has type 'week' and spans
\* 7 * N days, one with a days preset has type 'days' and spans N days, and
\* one with 'custom', and no other, has type 'custom'.
C24_PeriodConsistent ==
    \A i \in DOMAIN assignments :
        LET a == assignments[i]
        IN  IF a.period_choice \in {"1_week", "2_weeks", "3_weeks", "4_weeks"}
            THEN /\ a.assignment_type = "week"
                 /\ a.end_date - a.start_date + 1 = RefPresetDays(a.period_choice)
            ELSE IF a.period_choice \in {"15_days", "30_days"}
            THEN /\ a.assignment_type = "days"
                 /\ a.end_date - a.start_date + 1 = RefPresetDays(a.period_choice)
            ELSE a.period_choice = "custom" /\ a.assignment_type = "custom"

-----------------------------------------------------------------------------
(* SpecPrefill: u1 adds the member 'guest' with any default meal pattern,     *)
(* opens the meal form of Feb 29 and of Mar 1, saves the form of Feb 29 and   *)
(* opens the dashboard of February                                            *)

PrefillMemberRequest ==
    \E pattern \in DEFAULT_MEAL_CHOICES :
        member_add_view("u1", "POST", "guest", Null, TRUE, pattern)

PrefillMealsRequest ==
    \/ \E d \in {Feb29, Mar01} :
          \E post \in MealPosts("u1", {MealBL}) : meals_view("u1", "GET", d, post)
    \/ \E post \in MealPosts("u1", {MealBL, MealLDx}) : meals_view("u1", "POST", Feb29, post)

PrefillDashboardRequest == dashboard_view("u1", 2024, 2)

NextPrefill ==
    \/ PrefillMemberRequest
    \/ PrefillMealsRequest
    \/ PrefillDashboardRequest

SpecPrefill == Init /\ [][NextPrefill]_vars

\* the letters of a default meal pattern
RefLetters(pattern) ==
    CASE pattern = "NONE" -> {}
      [] pattern = "B"    -> {"B"}
      [] pattern = "L"    -> {"L"}
      [] pattern = "D"    -> {"D"}
      [] pattern = "BL"   -> {"B", "L"}
      [] pattern = "LD"   -> {"L", "D"}
      [] pattern = "BD"   -> {"B", "D"}
      [] pattern = "BLD"  -> {"B", "L", "D"}

\* the total meal units the dashboard of a month of 2024 counts for the mess
UnitsOf(mess, month) == TotalMealsAll(mess, get_month_date_range(2024, month))

\* C22: the opened meal form has one entry per active member; for a member
\* without a meal row on the date it shows breakfast, lunch and dinner ticked
\* exactly for the letters of the member's default pattern and extra 0, for a
\* member with a row the stored values; opening the form creates no meal row
\* and leaves the meal units of the dashboard as they were.
C22_PrefillFromPattern ==
    /\ []((request.view = "meals" /\ request.method = "GET" /\ response.status = "ok") =>
            LET mess    == get_user_mess(request.user)
                entries == response.data.members_meals
            IN  /\ {entries[k].member : k \in DOMAIN entries} = RefActive(mess)
                /\ Len(entries) = Cardinality(RefActive(mess))
                /\ \A k \in DOMAIN entries :
                      LET e       == entries[k]
                          rows    == {r \in meals : /\ r.mess = mess
                                                    /\ r.member = e.member
                                                    /\ r.date = request.date}
                          letters == RefLetters(members[e.member].default_meal_pattern)
                      IN  IF rows = {}
                          THEN /\ e.had_breakfast <=> "B" \in letters
                               /\ e.had_lunch <=> "L" \in letters
                               /\ e.had_dinner <=> "D" \in letters
                               /\ e.extra_meals = 0
                          ELSE \A r \in rows :
                                  /\ e.had_breakfast = r.had_breakfast
                                  /\ e.had_lunch = r.had_lunch
                                  /\ e.had_dinner = r.had_dinner
                                  /\ e.extra_meals = r.extra_meals)
    /\ [][(request'.view = "meals" /\ request'.method = "GET") =>
             /\ meals' = meals
             /\ \A mess \in MessIds, month \in {2, 3} :
                   UnitsOf(mess, month)' = UnitsOf(mess, month)]_vars

\* the opened form of Feb 29: 'guest' with pattern BD has no row and is shown
\* breakfast and dinner, u3 with pattern BLD has a row and is shown its lunch,
\* dinner and half an extra meal
C22_Witness ==
    /\ request.view = "meals" /\ request.method = "GET" /\ request.date = Feb29
    /\ response.status = "ok"
    /\ Len(members) = 4 /\ members[4].default_meal_pattern = "BD"
    /\ ~\E r \in meals : r.member = 4
    /\ \E k \in DOMAIN response.data.members_meals :
          response.data.members_meals[k] =
              [member |-> 4, had_breakfast |-> TRUE, had_lunch |-> FALSE,
               had_dinner |-> TRUE, extra_meals |-> 0]
    /\ \E k \in DOMAIN response.data.members_meals :
          response.data.members_meals[k] =
              [member |-> 3, had_breakfast |-> FALSE, had_lunch |-> TRUE,
               had_dinner |-> TRUE, extra_meals |-> 50]

-----------------------------------------------------------------------------
(* SpecCalendar: u1 records expenses on the last day of February of 1900,     *)
(* 2023 and 2024 and on the day after it, and opens the dashboard of every    *)
(* month of 1900, 2000, 2023, 2024 and 2100                                   *)

CalendarYears == {1900, 2000, 2023, 2024, 2100}

\* the dates submitted: 1900-02-28, 1900-03-01, 2023-02-28, 2023-03-01,
\* 2024-02-29, 2024-03-01
CalendarDates ==
    {Date(1900, 2, 28), Date(1900, 2, 28) + 1,
     Date(2023, 2, 28), Date(2023, 2, 28) + 1,
     Date(2024, 2, 29), Date(2024, 2, 29) + 1}

CalendarExpenseRequest ==
    \E d \in CalendarDates : expense_view("u1", "POST", d, "100")

CalendarDashboardRequest ==
    \E year \in CalendarYears, month \in 1..12 : dashboard_view("u1", year, month)

NextCalendar ==
    \/ CalendarExpenseRequest
    \/ CalendarDashboardRequest

SpecCalendar == Init /\ [][NextCalendar]_vars

\* the number of days of a month of the Gregorian calendar
RefMonthLength(year, month) ==
    CASE month \in {1, 3, 5, 7, 8, 10, 12} -> 31
      [] month \in {4, 6, 9, 11}           -> 30
      [] month = 2 ->
            IF (year % 4 = 0 /\ year % 100 # 0) \/ year % 400 = 0 THEN 29 ELSE 28

\* the month before a month
RefPreviousMonth(year, month) ==
    IF month = 1 THEN [year |-> year - 1, month |-> 12]
    ELSE [year |-> year, month |-> month - 1]

\* C23: the range of a month starts on the day after the last day of the
\* month before and has 31, 30, or for February 29 (year divisible by 4 and
\* not by 100, or divisible by 400) or 28 days; the dashboard of the month
\* counts exactly the expenses of these days.
C23_MonthRange ==
    IsDash =>
        LET year  == Dash.summary.year
            month == Dash.summary.month
            rng   == get_month_date_range(year, month)
            prev  == RefPreviousMonth(year, month)
            days  == RefMonthLength(year, month)
            rows  == {i \in DOMAIN expenses :
                         /\ expenses[i].mess = DashMess
                         /\ expenses[i].date >= rng.start_date
                         /\ expenses[i].date < rng.start_date + days}
        IN  /\ rng.start_date = get_month_date_range(prev.year, prev.month).end_date + 1
            /\ rng.end_date = rng.start_date + days - 1
            /\ Dash.summary.total_expense = SumSet(rows, [i \in rows |-> expenses[i].amount])

\* the dashboard of February 1900, not a leap year: of the expenses of
\* 1900-02-28 and of the day after only the first is counted
C23_Witness ==
    /\ IsDash /\ Dash.summary.year = 1900 /\ Dash.summary.month = 2
    /\ \E i \in DOMAIN expenses : expenses[i].date = Date(1900, 2, 28)
    /\ \E i \in DOMAIN expenses : expenses[i].date = Date(1900, 2, 28) + 1
    /\ Len(expenses) = 2
    /\ Dash.summary.total_expense = 10000

-----------------------------------------------------------------------------
\* C25: every stored deposit is of a member of the deposit's own mess, and
\* the dashboard's total_collected is the sum of the in-range deposits of the
\* dashboard's mess that are of members of that mess.
C25_DepositMemberOfSameMess ==
    /\ \A i \in DOMAIN deposits : members[deposits[i].member].mess = deposits[i].mess
    /\ IsDash =>
          LET rng  == get_month_date_range(Dash.summary.year, Dash.summary.month)
              rows == {i \in DOMAIN deposits :
                          /\ deposits[i].mess = DashMess
                          /\ members[deposits[i].member].mess = DashMess
                          /\ InRange(deposits[i].date, rng)}
          IN  Dash.summary.total_collected = SumSet(rows, [i \in rows |-> deposits[i].amount])

-----------------------------------------------------------------------------
\* C26: in every dashboard the summary's total_meals is the sum of the meals
\* of the member rows.
C26_TotalIsSumOfRows ==
    IsDash =>
        Dash.summary.total_meals =
            SumSet(DOMAIN Dash.members, [k \in DOMAIN Dash.members |-> Dash.members[k].meals])

\* a dashboard of February with two member rows of different, positive meals
C26_Witness ==
    /\ IsDash /\ Dash.summary.month = 2
    /\ Len(Dash.members) = 2
    /\ Dash.members[1].meals > 0
    /\ Dash.members[2].meals > Dash.members[1].meals
    /\ Dash.summary.total_meals = Dash.members[1].meals + Dash.members[2].meals

-----------------------------------------------------------------------------
\* C27: a settings update of the super-admin with a weight that is not a
\* decimal keeps the stored breakfast_weight and stores the submitted
\* include_breakfast flag; every settings request leaves name, owner and
\* currency of every mess, the other messes and all other tables unchanged.
C27_InvalidWeightKept ==
    /\ [][\A include \in BOOLEAN :
             settings_view("u1", "POST", include, "abc") =>
                 /\ messes'[1].breakfast_weight = messes[1].breakfast_weight
                 /\ messes'[1].include_breakfast = include]_vars
    /\ [][request'.view = "settings" =>
             /\ \A m \in DOMAIN messes :
                   /\ messes'[m].name = messes[m].name
                   /\ messes'[m].owner = messes[m].owner
                   /\ messes'[m].currency = messes[m].currency
                   /\ m # get_user_mess(request'.user) => messes'[m] = messes[m]
             /\ DOMAIN messes' = DOMAIN messes
             /\ UNCHANGED <<memberships, members, meals, expenses, deposits,
                            assignments, accounts>>]_vars

\* the weight of mess 1 is still the default of registration, so no valid
\* weight was ever stored, and the last settings update of u1 has switched
\* breakfast off
C27_Witness ==
    /\ request.view = "settings" /\ request.method = "POST" /\ request.user = "u1"
    /\ response.status = "redirect"
    /\ messes[1].breakfast_weight = DefaultBreakfastWeight
    /\ ~messes[1].include_breakfast
    /\ meals # {}

=============================================================================
